---- MODULE Spec2Model ----
(***************************************************************************)
(* A model of cleanerAI.py: the rule table and clean_text, the plain-text  *)
(* pipeline (read_text_with_guess, detect_newline_style, clean_textfile,   *)
(* write_text_preserving_newlines), the container adapters clean_docx,     *)
(* clean_pptx and clean_xlsx, the dispatcher process_one with its backup   *)
(* step, the file lister iter_files, the scripted loop main, alone and in  *)
(* successive runs, and the interactive worker App._worker with its cancel *)
(* flag, its event queue and the consumer App._poll_queue.                 *)
(*                                                                         *)
(* Strings are sequences of Unicode code points (naturals).  A file's      *)
(* content is held as its decoded code points, carriage returns and line   *)
(* feeds included, so that the newline translation done by open(...,       *)
(* newline=...) on write is visible.                                       *)
(***************************************************************************)
EXTENDS FiniteSets, Integers, Naturals, Sequences, TLC

VARIABLES
    text,               \* SpecText: the argument of clean_text
    passes,             \* SpecText: the results of successive clean_text calls
    applied,            \* SpecOrder: the rules applied so far (indices of REPLACEMENTS)
    files,              \* file system: [dir, name] key -> content
    dirs,               \* file system: the directories that exist
    pyValid,            \* the texts ast.parse accepts
    linesep,            \* os.linesep of the platform
    have_docx,          \* HAVE_PYTHON_DOCX
    have_pptx,          \* HAVE_PYTHON_PPTX
    have_openpyxl,      \* HAVE_OPENPYXL
    readonly,           \* file system: the directories no entry can be added to
    call,               \* SpecFile: the call under study (function and arguments)
    ret,                \* SpecFile: what the call returned
    files0,             \* SpecFile: the file system before the call
    args,               \* main: the parsed arguments (args.in_place, args.out_dir, ...)
    mpc,                \* main: position ("start", "loop", "returned", "crashed")
    mfiles,             \* main: files = list(iter_files(...))
    mi,                 \* main: number of loop iterations entered
    mtally,             \* main: processed, changed, skipped, failed
    mresults,           \* main: the (ok, msg) printed for each file, in order
    recursive,          \* main: args.recursive of the run
    runlog,             \* SpecRuns: the runs of main that returned, in order
    exitCode,           \* main: the value returned
    app,                \* App: running, cancel_requested and the option fields
    wpc,                \* _worker: position
    wfiles,             \* _worker: files
    widx,               \* _worker: idx
    wtally,             \* _worker: processed, changed, skipped, failed
    wcur,               \* _worker: (ok, msg) returned by process_one, not yet tallied
    started,            \* _worker: number of process_one calls made
    q,                  \* App.q: every event put, in order
    handled,            \* _poll_queue: number of events of q already taken
    hlog,               \* _poll_queue: the events handled, in the order handled
    report              \* _poll_queue: the title of the message box shown on done

textVars == <<text, passes, applied>>
envVars  == <<files, dirs, pyValid, linesep, have_docx, have_pptx, have_openpyxl,
             readonly>>
callVars == <<call, ret, files0>>
mainVars == <<args, mpc, mfiles, mi, mtally, mresults, exitCode, recursive, runlog>>
guiVars  == <<app, wpc, wfiles, widx, wtally, wcur, started, q, handled, hlog,
             report>>
vars     == <<textVars, envVars, callVars, mainVars, guiVars>>

(***************************************************************************)
(* Bounds of the model.                                                    *)
(***************************************************************************)
MaxLen == 3         \* longest argument of clean_text in SpecText
MaxFileLen == 3     \* longest file content in SpecFile
MaxFiles == 2       \* longest file list of a batch run
MaxCells == 2       \* most cells of a workbook in SpecFile
MaxRuns == 2        \* most runs of main in SpecRuns

(***************************************************************************)
(* Code points.                                                            *)
(***************************************************************************)
SP == <<32>>
LF == <<10>>
CR == <<13>>
CRLF == <<13, 10>>

(***************************************************************************)
(* REPLACEMENTS, in the insertion order of the dict: <<bad, good>>.        *)
(***************************************************************************)
\* a table whose last rule gives back the source of the rule before it
REPLACEMENTS_mutReintroduce ==
    << <<8239, SP>>, <<8203, <<>>>>, <<8288, <<>>>>, <<160, SP>>,
       <<8204, <<>>>>, <<8205, <<>>>>, <<8289, <<>>>>, <<8290, SP>>,
       <<8291, SP>>, <<8365, SP>>, <<8292, SP>>, <<65279, <<>>>>,
       <<8206, <<>>>>, <<8207, <<>>>>, <<8232, LF>>, <<8233, <<8232>>>> >>

\* a table in which the no-break space becomes a narrow no-break space
REPLACEMENTS_mutChained ==
    << <<8239, SP>>, <<8203, <<>>>>, <<8288, <<>>>>, <<160, <<8239>>>>,
       <<8204, <<>>>>, <<8205, <<>>>>, <<8289, <<>>>>, <<8290, SP>>,
       <<8291, SP>>, <<8365, SP>>, <<8292, SP>>, <<65279, <<>>>>,
       <<8206, <<>>>>, <<8207, <<>>>>, <<8232, LF>>, <<8233, LF>> >>

REPLACEMENTS ==
    << <<8239, SP>>,        \* U+202F narrow no-break space -> space
       <<8203, <<>>>>,      \* U+200B zero width space -> deleted
       <<8288, <<>>>>,      \* U+2060 word joiner -> deleted
       <<160, SP>>,         \* U+00A0 no-break space -> space
       <<8204, <<>>>>,      \* U+200C zero width non-joiner -> deleted
       <<8205, <<>>>>,      \* U+200D zero width joiner -> deleted
       <<8289, <<>>>>,      \* U+2061 function application -> deleted
       <<8290, SP>>,        \* U+2062 invisible times -> space
       <<8291, SP>>,        \* U+2063 invisible separator -> space
       <<8365, SP>>,        \* U+20AD kip sign -> space
       <<8292, SP>>,        \* U+2064 invisible plus -> space
       <<65279, <<>>>>,     \* U+FEFF byte order mark -> deleted
       <<8206, <<>>>>,      \* U+200E left-to-right mark -> deleted
       <<8207, <<>>>>,      \* U+200F right-to-left mark -> deleted
       <<8232, LF>>,        \* U+2028 line separator -> newline
       <<8233, LF>> >>      \* U+2029 paragraph separator -> newline

RuleSources == {REPLACEMENTS[k][1] : k \in 1..Len(REPLACEMENTS)}

(***************************************************************************)
(* str.replace(bad, good) for a one-code-point bad: every occurrence.      *)
(***************************************************************************)
\* str.replace(bad, good, 1): the first occurrence only
RECURSIVE StrReplace_mutFirstOnly(_, _, _)
StrReplace_mutFirstOnly(t, bad, good) ==
    IF t = <<>> THEN <<>>
    ELSE IF Head(t) = bad THEN good \o Tail(t)
         ELSE <<Head(t)>> \o StrReplace_mutFirstOnly(Tail(t), bad, good)

RECURSIVE StrReplace(_, _, _)
StrReplace(t, bad, good) ==
    IF t = <<>> THEN <<>>
    ELSE (IF Head(t) = bad THEN good ELSE <<Head(t)>>)
         \o StrReplace(Tail(t), bad, good)

(***************************************************************************)
(* clean_text: the rules applied one after the other, each to the result   *)
(* of the one before.                                                      *)
(***************************************************************************)
RECURSIVE ApplyRules(_, _)
ApplyRules(t, k) ==
    IF k > Len(REPLACEMENTS) THEN t
    ELSE ApplyRules(StrReplace(t, REPLACEMENTS[k][1], REPLACEMENTS[k][2]), k + 1)

\* clean_text that drops carriage returns as well
clean_text_mutDropCR(t) == ApplyRules(StrReplace(t, 13, <<>>), 1)

clean_text(t) == ApplyRules(t, 1)

Contains(t, c) == \E k \in 1..Len(t) : t[k] = c

(***************************************************************************)
(* Paths.  A path is [abs, dir, name]: whether it is absolute, the names   *)
(* of the directories leading to it, and its own name split at the dots    *)
(* (<<"a", ".txt">> is a.txt, <<"a", ".txt", ".bak">> is a.txt.bak, a      *)
(* directory's name is one segment).  The file system is keyed by the      *)
(* resolved directory and the name.                                        *)
(***************************************************************************)
Cwd == <<"w">>
NoPath == [abs |-> FALSE, dir |-> <<>>, name |-> <<>>]     \* out_dir is None

Resolve(p) ==
    IF p.abs THEN p ELSE [abs |-> TRUE, dir |-> Cwd \o p.dir, name |-> p.name]

Key(p) == <<Resolve(p).dir, p.name>>
ParentDir(p) == Resolve(p).dir                  \* p.parent, as a directory
AsDir(p) == Resolve(p).dir \o <<p.name[1]>>     \* p itself, as a directory

\* out_dir / rel, for a relative rel
Join(d, rel) ==
    [abs |-> d.abs, dir |-> d.dir \o <<d.name[1]>> \o rel.dir, name |-> rel.name]

\* path.name, as a relative path
NameOnly(p) == [abs |-> FALSE, dir |-> <<>>, name |-> p.name]

\* str.lower() on the suffixes of the model
Lower(s) ==
    IF s = ".TXT" THEN ".txt"
    ELSE IF s = ".Docx" THEN ".docx"
    ELSE IF s = ".XLSX" THEN ".xlsx"
    ELSE IF s = ".PY" THEN ".py"
    ELSE s

\* path.suffix
Suffix(p) == IF Len(p.name) >= 2 THEN p.name[Len(p.name)] ELSE ""

\* path.with_suffix(path.suffix + ".bak")
WithBak(p) == [p EXCEPT !.name = p.name \o <<".bak">>]

IsFile(fl, p) == Key(p) \in DOMAIN fl
IsDir(ds, p) == Len(p.name) = 1 /\ AsDir(p) \in ds
Exists(fl, ds, p) == IsFile(fl, p) \/ IsDir(ds, p)

Prefixes(d) == {SubSeq(d, 1, k) : k \in 0..Len(d)}

\* mkdir(parents=True, exist_ok=True) raises when a regular file stands
\* where the directory, or one of its parents, has to be.
MkdirRaises(fl, d) ==
    \E k \in 1..Len(d) : <<SubSeq(d, 1, k - 1), <<d[k]>>>> \in DOMAIN fl

Mkdir(ds, d) == ds \cup Prefixes(d)

\* creating p raises when p is not there yet and its directory takes no new
\* entry (an existing file in such a directory can still be rewritten)
CreateRaises(fl, p) == ~IsFile(fl, p) /\ ParentDir(p) \in readonly

\* shutil.copy2(src, dst): dst holds the bytes of src
Copy2(fl, src, dst) == (Key(dst) :> fl[Key(src)]) @@ fl

(***************************************************************************)
(* File contents: [kind |-> "text", text], a word-processing document with *)
(* its runs [kind |-> "container", units], a presentation with the runs of *)
(* its text frames [kind |-> "presentation", units], a workbook with its   *)
(* cells [kind |-> "workbook", cells], or bytes that are none of these     *)
(* [kind |-> "binary"].  A cell is [isstr, value, comment]: whether its    *)
(* value is a str, the value, and the text of its comment (<<>> when it    *)
(* has none).                                                              *)
(***************************************************************************)
TextFile(t) == [kind |-> "text", text |-> t]
Container(us) == [kind |-> "container", units |-> us]
Presentation(us) == [kind |-> "presentation", units |-> us]
Workbook(cs) == [kind |-> "workbook", cells |-> cs]
Cell(isstr, v, c) == [isstr |-> isstr, value |-> v, comment |-> c]
Binary == [kind |-> "binary"]

(***************************************************************************)
(* probably_text: False when the file cannot be read or holds a null byte; *)
(* the text contents of the model hold no control bytes below 9 or between *)
(* 14 and 31, so they are accepted.                                        *)
(***************************************************************************)
probably_text(fl, p) == IsFile(fl, p) /\ fl[Key(p)].kind = "text"

(***************************************************************************)
(* detect_newline_style; <<>> stands for None.                             *)
(***************************************************************************)
HasCRLF(t) == \E k \in 1..(Len(t) - 1) : t[k] = 13 /\ t[k + 1] = 10

detect_newline_style(t) ==
    IF HasCRLF(t) THEN CRLF
    ELSE IF Contains(t, 13) /\ ~Contains(t, 10) THEN CR
    ELSE IF Contains(t, 10) THEN LF
    ELSE <<>>

(***************************************************************************)
(* What open(path, "w", newline=newline).write(text) stores: with newline  *)
(* None every "\n" written becomes os.linesep, with "" or "\n" nothing is  *)
(* translated, with "\r" or "\r\n" every "\n" written becomes that string. *)
(***************************************************************************)
Translated(t, newline) ==
    IF newline = <<>> THEN StrReplace(t, 10, linesep)
    ELSE IF newline = LF THEN t
    ELSE StrReplace(t, 10, newline)

\* open(path, "w") raises when path is a directory
OpenWRaises(ds, p) == IsDir(ds, p)

write_text_preserving_newlines(fl, p, t, newline) ==
    (Key(p) :> TextFile(Translated(t, newline))) @@ fl

(***************************************************************************)
(* ast.parse(t) returns iff t is one of the texts the grammar accepts;     *)
(* otherwise it raises SyntaxError.                                        *)
(***************************************************************************)
ast_parse_ok(t) == t \in pyValid

(***************************************************************************)
(* Results.  A result is [raised, ok, msg, files, dirs]: whether the call  *)
(* raised instead of returning, the (ok, msg) returned, and the file       *)
(* system it leaves.                                                       *)
(***************************************************************************)
MSG_OK == "ok"
MSG_UNCHANGED == "unveraendert"
MSG_SKIPPED == "Uebersprungen (nicht als unterstuetztes Format / Text erkannt)."
MSG_ERROR == "Fehler: ..."
MSG_PREEXISTING == "Urspruengliche Python-Datei fehlerhaft: ..."
MSG_WOULD_BREAK == "Bereinigung abgebrochen: Syntax wuerde brechen (...)."
MSG_NO_DOCX == "python-docx nicht installiert (pip install python-docx)."
MSG_NO_PPTX == "python-pptx nicht installiert (pip install python-pptx)."
MSG_NO_OPENPYXL == "openpyxl nicht installiert (pip install openpyxl)."

Returns(ok, msg, fl, ds) ==
    [raised |-> FALSE, ok |-> ok, msg |-> msg, files |-> fl, dirs |-> ds]
Raises(fl, ds) ==
    [raised |-> TRUE, ok |-> FALSE, msg |-> MSG_ERROR, files |-> fl, dirs |-> ds]

(***************************************************************************)
(* The tail shared by clean_textfile and the adapters: create the parent   *)
(* of the output, then write the new content when something changed, or    *)
(* copy the input when the output is another path and nothing is there.    *)
(* Every exception is caught by the caller's except and becomes            *)
(* (False, "Fehler: ...").                                                 *)
(***************************************************************************)
\* the unchanged path that copies over whatever is at the output
PersistUnchanged_mutAlwaysCopy(fl, ds, input_file, output_file) ==
    IF output_file # input_file
    THEN Returns(TRUE, MSG_UNCHANGED, Copy2(fl, input_file, output_file), ds)
    ELSE Returns(TRUE, MSG_UNCHANGED, fl, ds)

PersistUnchanged(fl, ds, input_file, output_file) ==
    IF output_file # input_file /\ ~Exists(fl, ds, output_file)
    THEN Returns(TRUE, MSG_UNCHANGED, Copy2(fl, input_file, output_file), ds)
    ELSE Returns(TRUE, MSG_UNCHANGED, fl, ds)

(***************************************************************************)
(* clean_textfile(input_file, output_file, validate_python).               *)
(***************************************************************************)
\* clean_textfile without the parse of the cleaned text
clean_textfile_mutNoRecheck(fl, ds, input_file, output_file, validate_python) ==
    IF ~IsFile(fl, input_file) THEN Returns(FALSE, MSG_ERROR, fl, ds)
    ELSE
    LET original == fl[Key(input_file)].text
        newline  == detect_newline_style(original)
        cleaned  == clean_text(original)
        changed  == cleaned # original
        ds2      == Mkdir(ds, ParentDir(output_file))
    IN  IF validate_python /\ Lower(Suffix(input_file)) = ".py"
           /\ ~ast_parse_ok(original)
        THEN Returns(FALSE, MSG_PREEXISTING, fl, ds)
        ELSE IF MkdirRaises(fl, ParentDir(output_file))
        THEN Returns(FALSE, MSG_ERROR, fl, ds)
        ELSE IF changed
        THEN IF OpenWRaises(ds2, output_file)
             THEN Returns(FALSE, MSG_ERROR, fl, ds2)
             ELSE Returns(TRUE, MSG_OK,
                     write_text_preserving_newlines(fl, output_file, cleaned, newline),
                     ds2)
        ELSE PersistUnchanged(fl, ds2, input_file, output_file)

clean_textfile(fl, ds, input_file, output_file, validate_python) ==
    IF ~IsFile(fl, input_file) THEN Returns(FALSE, MSG_ERROR, fl, ds)
    ELSE
    LET original == fl[Key(input_file)].text
        newline  == detect_newline_style(original)
        cleaned  == clean_text(original)
        changed  == cleaned # original
        ds2      == Mkdir(ds, ParentDir(output_file))
    IN  IF validate_python /\ Lower(Suffix(input_file)) = ".py"
           /\ ~ast_parse_ok(original)
        THEN Returns(FALSE, MSG_PREEXISTING, fl, ds)
        ELSE IF validate_python /\ Lower(Suffix(input_file)) = ".py"
                /\ ~ast_parse_ok(cleaned)
        THEN Returns(FALSE, MSG_WOULD_BREAK, fl, ds)
        ELSE IF MkdirRaises(fl, ParentDir(output_file))
        THEN Returns(FALSE, MSG_ERROR, fl, ds)
        ELSE IF changed
        THEN IF OpenWRaises(ds2, output_file)
             THEN Returns(FALSE, MSG_ERROR, fl, ds2)
             ELSE Returns(TRUE, MSG_OK,
                     write_text_preserving_newlines(fl, output_file, cleaned, newline),
                     ds2)
        ELSE PersistUnchanged(fl, ds2, input_file, output_file)

(***************************************************************************)
(* clean_docx(input_file, output_file): every run of the document is       *)
(* cleaned; the document is saved when a run changed.                      *)
(***************************************************************************)
CleanUnits(us) == [k \in 1..Len(us) |-> clean_text(us[k])]

clean_docx(fl, ds, input_file, output_file) ==
    IF ~have_docx THEN Returns(FALSE, MSG_NO_DOCX, fl, ds)
    ELSE IF ~IsFile(fl, input_file) \/ fl[Key(input_file)].kind # "container"
    THEN Returns(FALSE, MSG_ERROR, fl, ds)              \* Document() raises
    ELSE
    LET units   == fl[Key(input_file)].units
        new     == CleanUnits(units)
        changed == new # units
        ds2     == Mkdir(ds, ParentDir(output_file))
    IN  IF MkdirRaises(fl, ParentDir(output_file))
        THEN Returns(FALSE, MSG_ERROR, fl, ds)
        ELSE IF changed
        THEN IF OpenWRaises(ds2, output_file)
             THEN Returns(FALSE, MSG_ERROR, fl, ds2)
             ELSE Returns(TRUE, MSG_OK,
                     (Key(output_file) :> Container(new)) @@ fl, ds2)
        ELSE PersistUnchanged(fl, ds2, input_file, output_file)

(***************************************************************************)
(* clean_pptx(input_file, output_file): every run of every text frame is   *)
(* cleaned (_clean_textframe); the presentation is saved when a run        *)
(* changed.                                                                *)
(***************************************************************************)
clean_pptx(fl, ds, input_file, output_file) ==
    IF ~have_pptx THEN Returns(FALSE, MSG_NO_PPTX, fl, ds)
    ELSE IF ~IsFile(fl, input_file) \/ fl[Key(input_file)].kind # "presentation"
    THEN Returns(FALSE, MSG_ERROR, fl, ds)              \* Presentation() raises
    ELSE
    LET units   == fl[Key(input_file)].units
        new     == CleanUnits(units)
        changed == new # units
        ds2     == Mkdir(ds, ParentDir(output_file))
    IN  IF MkdirRaises(fl, ParentDir(output_file))
        THEN Returns(FALSE, MSG_ERROR, fl, ds)
        ELSE IF changed
        THEN IF OpenWRaises(ds2, output_file)
             THEN Returns(FALSE, MSG_ERROR, fl, ds2)
             ELSE Returns(TRUE, MSG_OK,
                     (Key(output_file) :> Presentation(new)) @@ fl, ds2)
        ELSE PersistUnchanged(fl, ds2, input_file, output_file)

(***************************************************************************)
(* clean_xlsx(input_file, output_file): in every cell, a str value that    *)
(* does not start with "=" is cleaned, and so is the text of the comment,  *)
(* whatever the value is; the workbook is saved when a value or a comment  *)
(* changed.                                                                *)
(***************************************************************************)
EQ == 61            \* "="

\* v.startswith("=")
StartsWithEq(v) == Len(v) >= 1 /\ v[1] = EQ

\* the cell after the body of the loop over the cells, cleaning every str value
CleanCell_mutFormulasToo(c) ==
    [c EXCEPT !.value = IF c.isstr THEN clean_text(@) ELSE @,
              !.comment = IF @ # <<>> THEN clean_text(@) ELSE @]

\* the cell after the body of the loop over the cells
CleanCell(c) ==
    [c EXCEPT !.value = IF c.isstr /\ ~StartsWithEq(@) THEN clean_text(@) ELSE @,
              !.comment = IF @ # <<>> THEN clean_text(@) ELSE @]

CleanCells(cs) == [k \in 1..Len(cs) |-> CleanCell(cs[k])]

clean_xlsx(fl, ds, input_file, output_file) ==
    IF ~have_openpyxl THEN Returns(FALSE, MSG_NO_OPENPYXL, fl, ds)
    ELSE IF ~IsFile(fl, input_file) \/ fl[Key(input_file)].kind # "workbook"
    THEN Returns(FALSE, MSG_ERROR, fl, ds)              \* load_workbook raises
    ELSE
    LET cells   == fl[Key(input_file)].cells
        new     == CleanCells(cells)
        changed == new # cells
        ds2     == Mkdir(ds, ParentDir(output_file))
    IN  IF MkdirRaises(fl, ParentDir(output_file))
        THEN Returns(FALSE, MSG_ERROR, fl, ds)
        ELSE IF changed
        THEN IF OpenWRaises(ds2, output_file)
             THEN Returns(FALSE, MSG_ERROR, fl, ds2)
             ELSE Returns(TRUE, MSG_OK,
                     (Key(output_file) :> Workbook(new)) @@ fl, ds2)
        ELSE PersistUnchanged(fl, ds2, input_file, output_file)

(***************************************************************************)
(* should_treat_as_text and process_one.                                   *)
(***************************************************************************)
TEXT_EXTENSIONS_COMMON ==
    {".txt", ".md", ".rst", ".csv", ".tsv", ".json", ".yaml", ".yml",
     ".toml", ".ini", ".cfg", ".log", ".xml", ".html", ".htm", ".tex", ".bib"}

should_treat_as_text(fl, p, force_all_text) ==
    \/ Lower(Suffix(p)) \in TEXT_EXTENSIONS_COMMON
    \/ Lower(Suffix(p)) = ".py"
    \/ force_all_text /\ probably_text(fl, p)

\* target, as process_one determines it
Target(path, out_dir, in_place) ==
    IF in_place \/ out_dir = NoPath THEN path
    ELSE Resolve(Join(out_dir, IF path.abs THEN NameOnly(path) ELSE path))

\* the backup step that copies whenever the source is there
AfterBackup_mutOverwrite(fl, ds, path, in_place, backup) ==
    IF backup /\ in_place /\ IsFile(fl, path)
    THEN Copy2(fl, path, WithBak(path))
    ELSE fl

\* the backup step: the copy is made when path exists and bak does not; an
\* exception of the copy (bak cannot be created) is swallowed
AfterBackup(fl, ds, path, in_place, backup) ==
    IF backup /\ in_place /\ IsFile(fl, path) /\ ~Exists(fl, ds, WithBak(path))
       /\ ~CreateRaises(fl, WithBak(path))
    THEN Copy2(fl, path, WithBak(path))
    ELSE fl

Route(fl, ds, path, target, validate_python, force_all_text) ==
    LET ext == Lower(Suffix(path))
    IN  IF ext = ".docx" THEN clean_docx(fl, ds, path, target)
        ELSE IF ext = ".pptx" THEN clean_pptx(fl, ds, path, target)
        ELSE IF ext = ".xlsx" THEN clean_xlsx(fl, ds, path, target)
        ELSE IF should_treat_as_text(fl, path, force_all_text)
        THEN clean_textfile(fl, ds, path, target, validate_python)
        ELSE Returns(FALSE, MSG_SKIPPED, fl, ds)

process_one(fl, ds, path, out_dir, in_place, backup, validate_python, force_all_text) ==
    LET target == Target(path, out_dir, in_place)
    IN  IF ~in_place /\ MkdirRaises(fl, ParentDir(target))
        THEN Raises(fl, ds)             \* the mkdir is outside every try
        ELSE Route(AfterBackup(fl, ds, path, in_place, backup),
                   IF in_place THEN ds ELSE Mkdir(ds, ParentDir(target)),
                   path, target, validate_python, force_all_text)

(***************************************************************************)
(* Idle values of the variable groups a specification does not use.        *)
(***************************************************************************)
ZeroTally == [processed |-> 0, changed |-> 0, skipped |-> 0, failed |-> 0]
Total(t) == t.processed + t.skipped + t.failed
NoArgs == [in_place |-> FALSE, out_dir |-> NoPath, backup |-> FALSE,
           validate_python |-> FALSE, force_all_text |-> FALSE]
NoResult == [ok |-> FALSE, msg |-> ""]
NotCalled == [done |-> FALSE, raised |-> FALSE, ok |-> FALSE, msg |-> ""]
NoCall == [fn |-> "", input_file |-> NoPath, output_file |-> NoPath,
           validate_python |-> FALSE]

IdleText == text = <<>> /\ passes = <<>> /\ applied = {}
IdleEnv  == /\ files = <<>> /\ dirs = {} /\ pyValid = {}
            /\ linesep = LF /\ have_docx = TRUE /\ have_pptx = TRUE
            /\ have_openpyxl = TRUE /\ readonly = {}
IdleCall == call = NoCall /\ ret = NotCalled /\ files0 = <<>>
IdleMain == /\ args = NoArgs /\ mpc = "off" /\ mfiles = <<>> /\ mi = 0
            /\ mtally = ZeroTally /\ mresults = <<>> /\ exitCode = 0 - 1
            /\ recursive = FALSE /\ runlog = <<>>
IdleGui  == /\ app = NoArgs /\ wpc = "off" /\ wfiles = <<>> /\ widx = 0
            /\ wtally = ZeroTally /\ wcur = NoResult /\ started = 0
            /\ q = <<>> /\ handled = 0 /\ hlog = <<>> /\ report = ""

(***************************************************************************)
(* SpecText: clean_text as a pure function, applied once and then to its   *)
(* own result.                                                             *)
(***************************************************************************)
Alphabet == RuleSources \cup {32, 10, 13, 65}

Strings(S, n) == UNION {[1..m -> S] : m \in 0..n}

InitText ==
    /\ text \in Strings(Alphabet, MaxLen)
    /\ passes = <<>>
    /\ applied = {}
    /\ IdleEnv /\ IdleCall /\ IdleMain /\ IdleGui

CleanOnce ==
    /\ passes = <<>>
    /\ passes' = <<clean_text(text)>>
    /\ UNCHANGED <<text, applied, envVars, callVars, mainVars, guiVars>>

CleanAgain ==
    /\ Len(passes) = 1
    /\ passes' = Append(passes, clean_text(passes[1]))
    /\ UNCHANGED <<text, applied, envVars, callVars, mainVars, guiVars>>

NextText == CleanOnce \/ CleanAgain

SpecText == InitText /\ [][NextText]_vars

\* C1: clean_text is idempotent: cleaning the result of clean_text again
\* gives that same result, for every string over the rule-table code points,
\* space, newline, carriage return and an ordinary letter.
C1_Idempotent == Len(passes) = 2 => passes[2] = passes[1]

\* Witness of C1: a string holding a rule code point was cleaned twice.
C1_Witness ==
    /\ Len(passes) = 2
    /\ \E c \in RuleSources : Contains(text, c)
    /\ passes[1] # text

\* C2: completeness: a string that is exactly one rule's source is cleaned
\* to that rule's replacement, and no result of clean_text holds any rule's
\* source code point.
C2_Complete ==
    Len(passes) >= 1 =>
        /\ \A k \in 1..Len(REPLACEMENTS) :
              text = <<REPLACEMENTS[k][1]>> => passes[1] = REPLACEMENTS[k][2]
        /\ \A c \in RuleSources : ~Contains(passes[1], c)

\* Witness of C2: a string of two rule code points was cleaned.
C2_Witness ==
    /\ Len(passes) >= 1
    /\ Len(text) = 2
    /\ \A k \in 1..2 : text[k] \in RuleSources

\* C15: preservation: a string that holds none of the rule-table code points
\* is returned by clean_text as it is, spaces, newlines and carriage returns
\* included.
C15_Preservation ==
    (Len(passes) >= 1 /\ \A c \in RuleSources : ~Contains(text, c))
        => passes[1] = text

\* Witness of C15: a string of a letter, a carriage return and a newline,
\* which holds no rule code point, was cleaned.
C15_Witness ==
    /\ Len(passes) >= 1
    /\ text = <<65, 13, 10>>

(***************************************************************************)
(* SpecOrder: the rules of the table applied one after the other in an     *)
(* order of any kind, each rule once; passes holds the text so far.        *)
(***************************************************************************)
OrderTexts ==
    {<<8203, 160, 8232>>, <<8233, 32, 8239, 10>>, <<160, 8239, 160>>,
     <<65, 8365, 8207, 65279>>, <<65, 13, 10>>}

InitOrder ==
    /\ text \in OrderTexts
    /\ passes = <<text>>
    /\ applied = {}
    /\ IdleEnv /\ IdleCall /\ IdleMain /\ IdleGui

\* text = text.replace(bad, good) for a rule not yet applied
ApplyRule ==
    /\ \E k \in (1..Len(REPLACEMENTS)) \ applied :
          /\ passes' = <<StrReplace(passes[1], REPLACEMENTS[k][1], REPLACEMENTS[k][2])>>
          /\ applied' = applied \cup {k}
    /\ UNCHANGED <<text, envVars, callVars, mainVars, guiVars>>

NextOrder == ApplyRule

SpecOrder == InitOrder /\ [][NextOrder]_vars

\* C19: no replacement value of the table holds the source code point of any
\* rule, and when every rule has been applied once, in whatever order, the
\* text is clean_text of the input.
C19_OrderIndependent ==
    /\ \A k, j \in 1..Len(REPLACEMENTS) :
          ~Contains(REPLACEMENTS[k][2], REPLACEMENTS[j][1])
    /\ applied = 1..Len(REPLACEMENTS) => passes[1] = clean_text(text)

\* Witness of C19: all rules were applied to a text holding three rule code
\* points of different rules, one replaced by a space, one deleted, one
\* replaced by a newline.
C19_Witness ==
    /\ applied = 1..Len(REPLACEMENTS)
    /\ text = <<8203, 160, 8232>>
    /\ passes[1] = <<32, 10>>

(***************************************************************************)
(* SpecFile: one call of clean_textfile or clean_docx on a file system     *)
(* holding one input file and, possibly, an older file at the output path. *)
(***************************************************************************)
InDir == <<"w", "in">>
OutDir == <<"w", "out">>

InPath(name) == [abs |-> TRUE, dir |-> InDir, name |-> name]
OutPath(name) == [abs |-> TRUE, dir |-> OutDir, name |-> name]

FileAlphabet == {65, 8203, 160, 8232, 13, 10}

\* the end-to-end example: A U+200B B U+00A0 C \r \n
Example == <<65, 8203, 66, 160, 67, 13, 10>>

FileTexts == Strings(FileAlphabet, MaxFileLen) \cup {Example}

UnitTexts == {<<65>>, <<65, 8203>>, <<160, 65>>}

Containers == {Container(us) : us \in Strings(UnitTexts, 2)}

\* cells: plain and formula values, with and without rule code points, with
\* and without a comment, and a number
CellChoices ==
    {Cell(TRUE, <<65>>, <<>>), Cell(TRUE, <<65, 8203>>, <<>>),
     Cell(TRUE, <<EQ, 65>>, <<>>), Cell(TRUE, <<EQ, 8203>>, <<>>),
     Cell(TRUE, <<EQ, 160>>, <<65, 160>>), Cell(TRUE, <<65>>, <<8232>>),
     Cell(FALSE, <<>>, <<>>)}

Workbooks == {Workbook(cs) : cs \in Strings(CellChoices, MaxCells)}

\* an older file at the output path
Stale(name) ==
    IF name = <<"d", ".docx">> THEN Container(<<<<66>>>>)
    ELSE IF name = <<"w", ".xlsx">> THEN Workbook(<<Cell(TRUE, <<66>>, <<>>)>>)
    ELSE TextFile(<<66>>)

InitFile ==
    /\ \E name \in {<<"a", ".txt">>, <<"p", ".py">>, <<"d", ".docx">>, <<"w", ".xlsx">>} :
       \E content \in IF name = <<"d", ".docx">> THEN Containers \cup {Binary}
                      ELSE IF name = <<"w", ".xlsx">> THEN Workbooks \cup {Binary}
                      ELSE {TextFile(t) : t \in FileTexts} :
       \E stale \in BOOLEAN :
          /\ files = IF stale
                     THEN (Key(OutPath(name)) :> Stale(name))
                          @@ (Key(InPath(name)) :> content)
                     ELSE (Key(InPath(name)) :> content)
          /\ dirs = Prefixes(InDir) \cup (IF stale THEN Prefixes(OutDir) ELSE {})
          /\ pyValid \in IF name = <<"p", ".py">>
                         THEN SUBSET {content.text, clean_text(content.text)}
                         ELSE {{}}
    /\ linesep \in {LF, CRLF}
    /\ have_docx \in (IF \E k \in DOMAIN files : k[2] = <<"d", ".docx">>
                     THEN BOOLEAN ELSE {TRUE})
    /\ have_pptx = TRUE
    /\ have_openpyxl \in (IF \E k \in DOMAIN files : k[2] = <<"w", ".xlsx">>
                         THEN BOOLEAN ELSE {TRUE})
    /\ readonly = {}
    /\ call = NoCall
    /\ ret = NotCalled
    /\ files0 = files
    /\ IdleText /\ IdleMain /\ IdleGui

\* the input file of the file system
Inputs == {p \in {InPath(n) : n \in {<<"a", ".txt">>, <<"p", ".py">>, <<"d", ".docx">>,
                                     <<"w", ".xlsx">>}} :
              IsFile(files, p)}

CallCleanTextfile ==
    /\ ~ret.done
    /\ \E input_file \in {p \in Inputs : Suffix(p) \in {".txt", ".py"}} :
       \E output_file \in {input_file, OutPath(input_file.name)} :
       \E validate_python \in BOOLEAN :
          LET r == clean_textfile(files, dirs, input_file, output_file, validate_python)
          IN  /\ call' = [fn |-> "clean_textfile", input_file |-> input_file,
                          output_file |-> output_file,
                          validate_python |-> validate_python]
              /\ ret' = [done |-> TRUE, raised |-> r.raised, ok |-> r.ok, msg |-> r.msg]
              /\ files' = r.files
              /\ dirs' = r.dirs
    /\ UNCHANGED <<pyValid, linesep, have_docx, have_pptx, have_openpyxl, readonly,
                   files0, textVars, mainVars, guiVars>>

CallCleanDocx ==
    /\ ~ret.done
    /\ \E input_file \in {p \in Inputs : Suffix(p) = ".docx"} :
       \E output_file \in {input_file, OutPath(input_file.name)} :
          LET r == clean_docx(files, dirs, input_file, output_file)
          IN  /\ call' = [fn |-> "clean_docx", input_file |-> input_file,
                          output_file |-> output_file, validate_python |-> FALSE]
              /\ ret' = [done |-> TRUE, raised |-> r.raised, ok |-> r.ok, msg |-> r.msg]
              /\ files' = r.files
              /\ dirs' = r.dirs
    /\ UNCHANGED <<pyValid, linesep, have_docx, have_pptx, have_openpyxl, readonly,
                   files0, textVars, mainVars, guiVars>>

CallCleanXlsx ==
    /\ ~ret.done
    /\ \E input_file \in {p \in Inputs : Suffix(p) = ".xlsx"} :
       \E output_file \in {input_file, OutPath(input_file.name)} :
          LET r == clean_xlsx(files, dirs, input_file, output_file)
          IN  /\ call' = [fn |-> "clean_xlsx", input_file |-> input_file,
                          output_file |-> output_file, validate_python |-> FALSE]
              /\ ret' = [done |-> TRUE, raised |-> r.raised, ok |-> r.ok, msg |-> r.msg]
              /\ files' = r.files
              /\ dirs' = r.dirs
    /\ UNCHANGED <<pyValid, linesep, have_docx, have_pptx, have_openpyxl, readonly,
                   files0, textVars, mainVars, guiVars>>

NextFile == CallCleanTextfile \/ CallCleanDocx \/ CallCleanXlsx

SpecFile == InitFile /\ [][NextFile]_vars

\* the content the input file had before the call, and the output after it
Original == files0[Key(call.input_file)]
Destination == files[Key(call.output_file)]
DestinationExists == Key(call.output_file) \in DOMAIN files

TextCallDone == ret.done /\ call.fn = "clean_textfile"

HasRuleSource(t) == \E c \in RuleSources : Contains(t, c)

\* every line ending of t is \r\n: there is one, every \r is followed by a
\* \n and every \n follows a \r
AllCRLF(t) ==
    /\ HasCRLF(t)
    /\ \A k \in 1..Len(t) : t[k] = 13 => (k < Len(t) /\ t[k + 1] = 10)
    /\ \A k \in 1..Len(t) : t[k] = 10 => (k > 1 /\ t[k - 1] = 13)

\* every line terminator of t is of the style nl
OnlyStyle(t, nl) ==
    IF nl = CRLF THEN (~Contains(t, 13) /\ ~Contains(t, 10)) \/ AllCRLF(t)
    ELSE IF nl = CR THEN ~Contains(t, 10)
    ELSE ~Contains(t, 13)

\* C3: for a plain-text file, validation off, whose line endings are all
\* \r\n and which holds rule code points, clean_textfile returns (True, "ok")
\* and the destination holds exactly clean_text(original), each \r\n still one
\* \r\n; the input A U+200B B U+00A0 C \r\n gives "AB C\r\n".
C3_CrlfPreserved ==
    (/\ TextCallDone
     /\ ~call.validate_python
     /\ AllCRLF(Original.text)
     /\ HasRuleSource(Original.text))
    => /\ ret.ok /\ ret.msg = MSG_OK
       /\ Destination = TextFile(clean_text(Original.text))
       /\ Original.text = Example => Destination.text = <<65, 66, 32, 67, 13, 10>>

\* C4: every text file that is rewritten and has a detected newline style
\* has, in the written destination, line terminators of that style only.
C4_NewlineRoundTrip ==
    (/\ TextCallDone
     /\ ret.ok /\ ret.msg = MSG_OK
     /\ detect_newline_style(Original.text) # <<>>)
    => OnlyStyle(Destination.text, detect_newline_style(Original.text))

\* a .py file was checked with validate_python on
GuardedCallDone ==
    TextCallDone /\ call.validate_python /\ Lower(Suffix(call.input_file)) = ".py"

\* C5: with validate_python on and a .py input, clean_textfile changes the
\* file system only if the original and the cleaned text both parse; an
\* original that does not parse gives the pre-existing-error failure, a
\* cleaned text that does not parse gives the would-break failure, and in
\* both cases every file is as it was before the call.
C5_SyntaxSafety ==
    GuardedCallDone =>
        /\ files # files0 =>
              (Original.text \in pyValid /\ clean_text(Original.text) \in pyValid)
        /\ Original.text \notin pyValid =>
              (~ret.ok /\ ret.msg = MSG_PREEXISTING /\ files = files0)
        /\ (Original.text \in pyValid /\ clean_text(Original.text) \notin pyValid) =>
              (~ret.ok /\ ret.msg = MSG_WOULD_BREAK /\ files = files0)

\* Witness of C5: the original parses, the cleaned text does not, and the
\* call reported that the syntax would break.
C5_Witness ==
    /\ GuardedCallDone
    /\ Original.text \in pyValid
    /\ clean_text(Original.text) \notin pyValid
    /\ ret.msg = MSG_WOULD_BREAK

\* the fully normalized content of the input
Normalized(c) ==
    IF c.kind = "text" THEN TextFile(clean_text(c.text))
    ELSE IF c.kind = "workbook" THEN Workbook(CleanCells(c.cells))
    ELSE IF c.kind = "container" THEN Container(CleanUnits(c.units))
    ELSE c

\* C6: after a call that returned success ("ok" or "unveraendert") the
\* destination holds either the bytes of the source or the fully normalized
\* content, whatever the destination held before.
C6_DestinationContent ==
    (ret.done /\ ret.ok) =>
        /\ DestinationExists
        /\ Destination = Original \/ Destination = Normalized(Original)

\* clean_xlsx loaded the workbook of the input
XlsxCallDone ==
    /\ ret.done /\ call.fn = "clean_xlsx"
    /\ have_openpyxl
    /\ Original.kind = "workbook"

IsFormula(c) == c.isstr /\ StartsWithEq(c.value)

\* the workbook clean_xlsx holds in memory after its loops
Loaded == CleanCells(Original.cells)

\* C13 as stated: a cell whose value is a string beginning with "=" is never
\* modified, value and comment, and a workbook in which every other cell
\* holds no rule code point is not marked changed (the call returns
\* "unveraendert" and saves nothing).
C13_FormulaCellUntouched ==
    XlsxCallDone =>
        /\ \A k \in 1..Len(Original.cells) :
              IsFormula(Original.cells[k]) => Loaded[k] = Original.cells[k]
        /\ (\A k \in 1..Len(Original.cells) :
               \/ IsFormula(Original.cells[k])
               \/ (~HasRuleSource(Original.cells[k].value)
                   /\ ~HasRuleSource(Original.cells[k].comment)))
           => ret.msg = MSG_UNCHANGED

\* a cell whose value or comment clean_xlsx cleans holds a rule code point
Cleanable(c) ==
    \/ c.isstr /\ ~StartsWithEq(c.value) /\ HasRuleSource(c.value)
    \/ HasRuleSource(c.comment)

\* C13, amended: the value of a cell whose value is a string beginning with
\* "=" is never modified, whatever rule code points it holds, and such a
\* value never marks the workbook changed: the workbook is saved, with
\* result "ok", exactly when a value that is no formula or the comment of
\* some cell, formula cells included, holds a rule code point; the saved
\* workbook holds every formula value as it was.
C13_FormulaValueUntouched ==
    XlsxCallDone =>
        /\ \A k \in 1..Len(Original.cells) :
              IsFormula(Original.cells[k]) => Loaded[k].value = Original.cells[k].value
        /\ ret.msg = MSG_OK <=> \E k \in 1..Len(Original.cells) : Cleanable(Original.cells[k])
        /\ ret.msg = MSG_OK =>
              /\ Destination.kind = "workbook"
              /\ Len(Destination.cells) = Len(Original.cells)
              /\ \A k \in 1..Len(Original.cells) :
                    IsFormula(Original.cells[k]) =>
                        Destination.cells[k].value = Original.cells[k].value

\* Witness of C13: a workbook was saved in which a formula holding a rule
\* code point stands next to a cell that was cleaned.
C13_Witness ==
    /\ XlsxCallDone
    /\ ret.msg = MSG_OK
    /\ \E k \in 1..Len(Original.cells) :
          /\ IsFormula(Original.cells[k])
          /\ HasRuleSource(Original.cells[k].value)
          /\ Original.cells[k].comment = <<>>
          /\ Destination.cells[k] = Original.cells[k]

\* the call found nothing to change
FoundUnchanged == ret.done /\ ret.ok /\ ret.msg = MSG_UNCHANGED

\* nothing was at the output path before the call
DestinationFree == Key(call.output_file) \notin DOMAIN files0

\* C18: when clean_textfile, clean_docx or clean_xlsx finds nothing to change
\* the input is copied to the output path, and nothing else is written, if
\* the output path differs from the input path and nothing is at the output
\* path; otherwise no file is written at all: an unchanged file is never
\* written in place and a file already at the output path is left as it is.
C18_UnchangedCopy ==
    FoundUnchanged =>
        /\ IF call.output_file # call.input_file /\ DestinationFree
           THEN files = Copy2(files0, call.input_file, call.output_file)
           ELSE files = files0
        /\ call.output_file = call.input_file => files = files0
        /\ ~DestinationFree => Destination = files0[Key(call.output_file)]
        /\ files[Key(call.input_file)] = Original

\* Witness of C18: an unchanged workbook was copied to a free output path.
C18_Witness ==
    /\ FoundUnchanged
    /\ call.fn = "clean_xlsx"
    /\ call.output_file # call.input_file
    /\ DestinationFree
    /\ DestinationExists
    /\ Destination = Original

(***************************************************************************)
(* The batch drivers run on a file system with one file of each outcome:   *)
(* a.txt holds a rule code point, b.txt holds none, p.py holds U+2028      *)
(* inside a string literal (it parses, its cleaned text does not), d.docx  *)
(* is no document, x.bin has an unknown extension, and blk is a regular    *)
(* file where an output directory may be asked for.                        *)
(***************************************************************************)
InDirPath == [abs |-> TRUE, dir |-> Cwd, name |-> <<"in">>]
OutDirPath == [abs |-> TRUE, dir |-> Cwd, name |-> <<"out">>]
BlkPath == [abs |-> TRUE, dir |-> Cwd, name |-> <<"blk">>]
DefaultOutDir == [abs |-> TRUE, dir |-> Cwd, name |-> <<"cleaned_output">>]

BatchNames == {<<"a", ".txt">>, <<"b", ".txt">>, <<"p", ".py">>,
               <<"d", ".docx">>, <<"x", ".bin">>}

BatchFiles ==
    (Key(InPath(<<"a", ".txt">>)) :> TextFile(<<65, 8203, 13, 10>>))
    @@ (Key(InPath(<<"b", ".txt">>)) :> TextFile(<<65>>))
    @@ (Key(InPath(<<"p", ".py">>)) :> TextFile(<<34, 8232, 34>>))
    @@ (Key(InPath(<<"d", ".docx">>)) :> Binary)
    @@ (Key(InPath(<<"x", ".bin">>)) :> Binary)
    @@ (Key(BlkPath) :> TextFile(<<>>))

InitBatchEnv ==
    /\ files = BatchFiles
    /\ dirs = Prefixes(InDir)
    /\ pyValid = {<<34, 8232, 34>>}
    /\ linesep \in {LF, CRLF}
    /\ have_docx = TRUE
    /\ have_pptx = TRUE
    /\ have_openpyxl = TRUE
    /\ readonly = {}

\* list(iter_files(paths, recursive)): files that exist, in the order the
\* inputs and the directory listings give them
FileLists == UNION {[1..n -> {InPath(nm) : nm \in BatchNames}] : n \in 0..MaxFiles}

Options ==
    [in_place : BOOLEAN, out_dir : {NoPath, OutDirPath, BlkPath},
     backup : BOOLEAN, validate_python : BOOLEAN, force_all_text : BOOLEAN]

\* msg.startswith("Übersprungen")
StartsWithSkipped(msg) == msg = MSG_SKIPPED

(***************************************************************************)
(* main: the tally of one result (lines 636-644).                          *)
(***************************************************************************)
\* a tally that counts a skipped file as failed
MainTally_mutSkipIsFailure(t, ok, msg) ==
    IF ok
    THEN [t EXCEPT !.processed = @ + 1,
                   !.changed = IF msg = MSG_OK THEN @ + 1 ELSE @]
    ELSE [t EXCEPT !.failed = @ + 1]

\* a tally that counts every processed file as changed
MainTally_mutChangedAlways(t, ok, msg) ==
    IF ok
    THEN [t EXCEPT !.processed = @ + 1, !.changed = @ + 1]
    ELSE IF StartsWithSkipped(msg)
         THEN [t EXCEPT !.skipped = @ + 1]
         ELSE [t EXCEPT !.failed = @ + 1]

MainTally(t, ok, msg) ==
    IF ok
    THEN [t EXCEPT !.processed = @ + 1,
                   !.changed = IF msg = MSG_OK THEN @ + 1 ELSE @]
    ELSE IF StartsWithSkipped(msg)
         THEN [t EXCEPT !.skipped = @ + 1]
         ELSE [t EXCEPT !.failed = @ + 1]

\* the value main returns after the loop
MainExit(t) == IF t.failed = 0 THEN 0 ELSE 2

(***************************************************************************)
(* main, from parse_args to the file list: -i and -o exclude each other;   *)
(* without either the output goes to cwd/cleaned_output, created at once;  *)
(* an empty file list returns 0.                                           *)
(***************************************************************************)
InitMain ==
    /\ InitBatchEnv
    /\ args = NoArgs
    /\ mpc = "start"
    /\ mfiles = <<>>
    /\ mi = 0
    /\ mtally = ZeroTally
    /\ mresults = <<>>
    /\ exitCode = 0 - 1
    /\ recursive = FALSE
    /\ runlog = <<>>
    /\ IdleText /\ IdleCall /\ IdleGui

MainStart ==
    /\ mpc = "start"
    /\ \E a \in {o \in Options : ~(o.in_place /\ o.out_dir # NoPath)} :
       \E fs \in FileLists :
          LET dflt == ~a.in_place /\ a.out_dir = NoPath
              a2   == IF dflt THEN [a EXCEPT !.out_dir = DefaultOutDir] ELSE a
          IN  IF dflt /\ MkdirRaises(files, AsDir(DefaultOutDir))
              THEN /\ mpc' = "crashed"
                   /\ UNCHANGED <<args, mfiles, exitCode, dirs>>
              ELSE /\ args' = a2
                   /\ dirs' = IF dflt THEN Mkdir(dirs, AsDir(DefaultOutDir)) ELSE dirs
                   /\ mfiles' = fs
                   /\ IF Len(fs) = 0
                      THEN mpc' = "returned" /\ exitCode' = 0
                      ELSE mpc' = "loop" /\ UNCHANGED exitCode
    /\ UNCHANGED <<files, pyValid, linesep, have_docx, have_pptx, have_openpyxl, readonly,
                   mi, mtally, mresults, recursive, runlog,
                   textVars, callVars, guiVars>>

\* one iteration of the for loop: process_one, the tally, the printed line.
\* An exception leaving process_one leaves main.
MainStep ==
    /\ mpc = "loop"
    /\ mi < Len(mfiles)
    /\ LET r == process_one(files, dirs, mfiles[mi + 1], args.out_dir, args.in_place,
                            args.backup, args.validate_python, args.force_all_text)
       IN  /\ mi' = mi + 1
           /\ files' = r.files
           /\ dirs' = r.dirs
           /\ IF r.raised
              THEN mpc' = "crashed" /\ UNCHANGED <<mtally, mresults>>
              ELSE /\ mtally' = MainTally(mtally, r.ok, r.msg)
                   /\ mresults' = Append(mresults, [ok |-> r.ok, msg |-> r.msg])
                   /\ UNCHANGED mpc
    /\ UNCHANGED <<pyValid, linesep, have_docx, have_pptx, have_openpyxl, readonly,
                   args, mfiles, exitCode, recursive, runlog,
                   textVars, callVars, guiVars>>

\* the summary and the return value
MainReturn ==
    /\ mpc = "loop"
    /\ mi = Len(mfiles)
    /\ mpc' = "returned"
    /\ exitCode' = MainExit(mtally)
    /\ UNCHANGED <<envVars, args, mfiles, mi, mtally, mresults, recursive, runlog,
                   textVars, callVars, guiVars>>

NextMain == MainStart \/ MainStep \/ MainReturn

SpecMain == InitMain /\ [][NextMain]_vars

(***************************************************************************)
(* App: the state after __init__, with the options at their defaults.      *)
(***************************************************************************)
InitGui ==
    /\ InitBatchEnv
    /\ app = [running |-> FALSE, cancel_requested |-> FALSE,
              out_dir |-> DefaultOutDir, in_place |-> FALSE, backup |-> TRUE,
              validate_python |-> FALSE, force_all_text |-> FALSE]
    /\ wpc = "idle"
    /\ wfiles = <<>>
    /\ widx = 0
    /\ wtally = ZeroTally
    /\ wcur = NoResult
    /\ started = 0
    /\ q = <<>>
    /\ handled = 0
    /\ hlog = <<>>
    /\ report = ""
    /\ IdleText /\ IdleCall /\ IdleMain

(***************************************************************************)
(* App._start, with the check boxes, the output directory and the input    *)
(* list as the user left them.  Without in-place the output directory is   *)
(* created first and a failure ends the handler; an empty file list ends   *)
(* it as well; otherwise the worker thread starts.                         *)
(***************************************************************************)
Start ==
    /\ wpc = "idle"
    /\ ~app.running
    /\ \E o \in {o \in Options : o.out_dir # NoPath} :
       \E fs \in FileLists :
          LET out == IF o.in_place THEN NoPath ELSE o.out_dir
              set == [app EXCEPT !.in_place = o.in_place, !.backup = o.backup,
                                 !.validate_python = o.validate_python,
                                 !.force_all_text = o.force_all_text,
                                 !.out_dir = out]
          IN  IF ~o.in_place /\ MkdirRaises(files, AsDir(o.out_dir))
              THEN /\ app' = set
                   /\ UNCHANGED <<dirs, wpc, wfiles, q, handled, hlog>>
              ELSE /\ dirs' = IF o.in_place THEN dirs ELSE Mkdir(dirs, AsDir(o.out_dir))
                   /\ q' = <<>>
                   /\ handled' = 0
                   /\ hlog' = <<>>
                   /\ IF Len(fs) = 0
                      THEN /\ app' = [set EXCEPT !.running = FALSE,
                                                 !.cancel_requested = FALSE]
                           /\ UNCHANGED <<wpc, wfiles>>
                      ELSE /\ app' = [set EXCEPT !.running = TRUE,
                                                 !.cancel_requested = FALSE]
                           /\ wfiles' = fs
                           /\ wpc' = "check"
    /\ UNCHANGED <<files, pyValid, linesep, have_docx, have_pptx, have_openpyxl, readonly,
                   widx, wtally, wcur, started,
                   report, textVars, callVars, mainVars>>

\* App._cancel
Cancel ==
    /\ wpc # "off"
    /\ app.running
    /\ ~app.cancel_requested
    /\ app' = [app EXCEPT !.cancel_requested = TRUE]
    /\ UNCHANGED <<envVars, wpc, wfiles, widx, wtally, wcur, started, q, handled, hlog, report,
                   textVars, callVars, mainVars>>

(***************************************************************************)
(* App._worker.  The head of the for loop: the loop ends when the files    *)
(* are used up, and breaks, after a log event, when the cancel flag is     *)
(* set.                                                                    *)
(***************************************************************************)
LogEvent == [tag |-> "log"]

\* a step event that numbers the files from 0
StepEvent_mutZeroBased(idx, f, ok, msg) ==
    [tag |-> "step", idx |-> idx - 1, f |-> f, ok |-> ok, msg |-> msg]

StepEvent(idx, f, ok, msg) == [tag |-> "step", idx |-> idx, f |-> f, ok |-> ok, msg |-> msg]

DoneEvent(t) == [tag |-> "done", totals |-> t]

\* the head of the loop without the test of the flag
LoopHead_mutIgnoreCancel(more, cancel) ==
    IF ~more THEN "putdone" ELSE "proc"

\* where the worker goes from the head of the loop
LoopHead(more, cancel) ==
    IF ~more THEN "putdone"
    ELSE IF cancel THEN "cancelled"
    ELSE "proc"

\* a tally that leaves a skipped file uncounted
WorkerTally_mutSkipUncounted(t, ok, msg) ==
    IF ok
    THEN [t EXCEPT !.processed = @ + 1,
                   !.changed = IF msg = MSG_OK THEN @ + 1 ELSE @]
    ELSE IF StartsWithSkipped(msg)
         THEN t
         ELSE [t EXCEPT !.failed = @ + 1]

\* the tally of one result (lines 550-558)
WorkerTally(t, ok, msg) ==
    IF ok
    THEN [t EXCEPT !.processed = @ + 1,
                   !.changed = IF msg = MSG_OK THEN @ + 1 ELSE @]
    ELSE IF StartsWithSkipped(msg)
         THEN [t EXCEPT !.skipped = @ + 1]
         ELSE [t EXCEPT !.failed = @ + 1]

WorkerCheck ==
    /\ wpc = "check"
    /\ LET to == LoopHead(started < Len(wfiles), app.cancel_requested)
       IN  /\ wpc' = IF to = "cancelled" THEN "putdone" ELSE to
           /\ q' = IF to = "cancelled" THEN Append(q, LogEvent) ELSE q
    /\ UNCHANGED <<envVars, app, wfiles, widx, wtally, wcur, started, handled, hlog, report,
                   textVars, callVars, mainVars>>

\* the call of process_one; an exception leaving it ends the thread
WorkerProcess ==
    /\ wpc = "proc"
    /\ LET r == process_one(files, dirs, wfiles[started + 1], app.out_dir, app.in_place,
                            app.backup, app.validate_python, app.force_all_text)
       IN  /\ started' = started + 1
           /\ files' = r.files
           /\ dirs' = r.dirs
           /\ wcur' = [ok |-> r.ok, msg |-> r.msg]
           /\ wpc' = IF r.raised THEN "dead" ELSE "tally"
    /\ UNCHANGED <<pyValid, linesep, have_docx, have_pptx, have_openpyxl, readonly,
                   app, wfiles, widx, wtally, q, handled, hlog, report,
                   textVars, callVars, mainVars>>

\* idx += 1, the tally and the step event
WorkerCount ==
    /\ wpc = "tally"
    /\ widx' = widx + 1
    /\ wtally' = WorkerTally(wtally, wcur.ok, wcur.msg)
    /\ q' = Append(q, StepEvent(widx + 1, wfiles[started], wcur.ok, wcur.msg))
    /\ wpc' = "check"
    /\ UNCHANGED <<envVars, app, wfiles, wcur, started, handled, hlog, report,
                   textVars, callVars, mainVars>>

\* the done event, after the loop
WorkerDone ==
    /\ wpc = "putdone"
    /\ q' = Append(q, DoneEvent(wtally))
    /\ wpc' = "end"
    /\ UNCHANGED <<envVars, app, wfiles, widx, wtally, wcur, started, handled, hlog, report,
                   textVars, callVars, mainVars>>

\* a queue that gives the newest item first
QueueGet_mutNewest(qu, taken) == qu[Len(qu)]

\* queue.Queue.get_nowait: the oldest item not yet taken
QueueGet(qu, taken) == qu[taken + 1]

\* the message box shown for the done event
Report(cancel_requested, failed) ==
    IF cancel_requested THEN "Abgebrochen"
    ELSE IF failed = 0 THEN "Fertig"
    ELSE "Fertig mit Fehlern"

\* App._poll_queue takes the next event; the done event ends the run
PollQueue ==
    /\ wpc # "off"
    /\ app.running
    /\ handled < Len(q)
    /\ LET item == QueueGet(q, handled)
       IN  /\ handled' = handled + 1
           /\ hlog' = Append(hlog, item)
           /\ app' = IF item.tag = "done" THEN [app EXCEPT !.running = FALSE] ELSE app
           /\ report' = IF item.tag = "done"
                        THEN Report(app.cancel_requested, item.totals.failed)
                        ELSE report
    /\ UNCHANGED <<envVars, wpc, wfiles, widx, wtally, wcur, started, q,
                   textVars, callVars, mainVars>>

NextGui ==
    Start \/ Cancel \/ WorkerCheck \/ WorkerProcess \/ WorkerCount \/ WorkerDone
    \/ PollQueue

SpecGui == InitGui /\ [][NextGui]_vars

(***************************************************************************)
(* SpecBatch: a run of either driver.                                      *)
(***************************************************************************)
InitBatch == InitMain \/ InitGui

NextBatch == NextMain \/ NextGui

SpecBatch == InitBatch /\ [][NextBatch]_vars

(***************************************************************************)
(* SpecOne: one call of process_one, followed by the tally either driver   *)
(* makes of its result.  The file system holds one input file, possibly a  *)
(* backup of it left by an earlier run and possibly an older file at its   *)
(* path under the output directory; the input directory may take no new    *)
(* entries.  The path processed is that file or g.txt, which is not there. *)
(***************************************************************************)
Dirty == <<65, 8203>>
Clean == <<65>>
Quoted == <<34, 8232, 34>>          \* a string literal holding U+2028
Older == TextFile(<<66>>)

OneFiles ==
    { <<<<"a", ".txt">>, TextFile(Dirty)>>, <<<<"a", ".txt">>, TextFile(Clean)>>,
      <<<<"A", ".TXT">>, TextFile(Dirty)>>,
      <<<<"p", ".py">>, TextFile(Quoted)>>, <<<<"P", ".PY">>, TextFile(Quoted)>>,
      <<<<"d", ".docx">>, Container(<<Dirty>>)>>, <<<<"d", ".docx">>, Container(<<Clean>>)>>,
      <<<<"d", ".docx">>, Binary>>, <<<<"D", ".Docx">>, Container(<<Dirty>>)>>,
      <<<<"s", ".pptx">>, Presentation(<<Dirty>>)>>,
      <<<<"s", ".pptx">>, Presentation(<<Clean>>)>>,
      <<<<"w", ".xlsx">>, Workbook(<<Cell(TRUE, Dirty, <<>>)>>)>>,
      <<<<"w", ".xlsx">>, Workbook(<<Cell(TRUE, <<EQ>> \o Dirty, <<>>)>>)>>,
      <<<<"W", ".XLSX">>, Workbook(<<Cell(FALSE, <<>>, Dirty)>>)>>,
      <<<<"x", ".bin">>, TextFile(Dirty)>>, <<<<"x", ".bin">>, TextFile(Clean)>>,
      <<<<"x", ".bin">>, Binary>>,
      <<<<"n">>, TextFile(Dirty)>> }

OneOptions ==
    [in_place : BOOLEAN, out_dir : {NoPath, OutDirPath, InDirPath, BlkPath},
     backup : BOOLEAN, validate_python : BOOLEAN, force_all_text : BOOLEAN]

InitOne ==
    /\ \E f \in OneFiles : \E bak, stale \in BOOLEAN :
          /\ files = (IF bak THEN (Key(WithBak(InPath(f[1]))) :> Older) ELSE <<>>)
                     @@ (IF stale THEN (Key(OutPath(f[1])) :> Older) ELSE <<>>)
                     @@ (Key(InPath(f[1])) :> f[2])
                     @@ (Key(BlkPath) :> TextFile(<<>>))
          /\ dirs = Prefixes(InDir) \cup (IF stale THEN Prefixes(OutDir) ELSE {})
          /\ pyValid \in IF Lower(Suffix(InPath(f[1]))) = ".py"
                         THEN {{Quoted}, {Quoted, clean_text(Quoted)}}
                         ELSE {{}}
          /\ have_docx \in IF Lower(Suffix(InPath(f[1]))) = ".docx" THEN BOOLEAN ELSE {TRUE}
          /\ have_pptx \in IF Lower(Suffix(InPath(f[1]))) = ".pptx" THEN BOOLEAN ELSE {TRUE}
          /\ have_openpyxl \in IF Lower(Suffix(InPath(f[1]))) = ".xlsx"
                               THEN BOOLEAN ELSE {TRUE}
    /\ readonly \in {{}, {InDir}}
    /\ linesep = LF
    /\ call = NoCall
    /\ ret = NotCalled
    /\ files0 = files
    /\ IdleText /\ IdleMain /\ IdleGui

\* the paths process_one is called for
OnePaths ==
    {InPath(f[1]) : f \in {g \in OneFiles : IsFile(files, InPath(g[1]))}}
    \cup {InPath(<<"g", ".txt">>)}

\* process_one(path, ...) and the tally of its result, as in the body of the
\* loop of main and of _worker
ProcessAndTally ==
    /\ ~ret.done
    /\ \E path \in OnePaths : \E o \in OneOptions :
          LET r == process_one(files, dirs, path, o.out_dir, o.in_place, o.backup,
                               o.validate_python, o.force_all_text)
          IN  /\ call' = [fn |-> "process_one", input_file |-> path,
                          output_file |-> Target(path, o.out_dir, o.in_place),
                          validate_python |-> o.validate_python]
              /\ args' = o
              /\ ret' = [done |-> TRUE, raised |-> r.raised, ok |-> r.ok, msg |-> r.msg]
              /\ files' = r.files
              /\ dirs' = r.dirs
              /\ mtally' = IF r.raised THEN mtally ELSE MainTally(mtally, r.ok, r.msg)
              /\ wtally' = IF r.raised THEN wtally ELSE WorkerTally(wtally, r.ok, r.msg)
    /\ UNCHANGED <<pyValid, linesep, have_docx, have_pptx, have_openpyxl, readonly,
                   files0, textVars, mpc, mfiles, mi, mresults, exitCode,
                   recursive, runlog,
                   app, wpc, wfiles, widx, wcur, started, q, handled, hlog,
                   report>>

NextOne == ProcessAndTally

SpecOne == InitOne /\ [][NextOne]_vars

(***************************************************************************)
(* SpecRuns: runs of main, one after another, over the same input          *)
(* directory.  Each run takes its own options; the files it lists are      *)
(* those the directory holds when it starts, the backups left by earlier   *)
(* runs included.                                                          *)
(***************************************************************************)
SubDir == InDir \o <<"sub">>
SubPath(name) == [abs |-> TRUE, dir |-> SubDir, name |-> name]
Dirtier == <<66, 8203>>
DirtyCRLF == <<65, 8203, 13, 10>>

\* the input trees the runs start from
RunFiles ==
    { (Key(InPath(<<"a", ".txt">>)) :> TextFile(Dirty))
          @@ (Key(SubPath(<<"a", ".txt">>)) :> TextFile(Dirtier)),
      (Key(InPath(<<"a", ".txt">>)) :> TextFile(DirtyCRLF))
          @@ (Key(InPath(<<"x", ".bin">>)) :> TextFile(Dirtier)),
      (Key(InPath(<<"p", ".py">>)) :> TextFile(Quoted))
          @@ (Key(SubPath(<<"b", ".txt">>)) :> TextFile(Clean)),
      (Key(InPath(<<"a", ".txt">>)) :> TextFile(Dirty))
          @@ (Key(WithBak(InPath(<<"a", ".txt">>))) :> Older) }

\* args.paths, resolved
RunPaths == <<InDirPath>>

\* the options parse_args lets through, -o being out or absent
RunOptions ==
    {o \in Options : o.out_dir # BlkPath /\ ~(o.in_place /\ o.out_dir # NoPath)}

PathOf(k) == [abs |-> TRUE, dir |-> k[1], name |-> k[2]]

\* the files p.rglob("*") and p.glob("*") give for the directory d
Globbed(fl, d, rec) ==
    {PathOf(k) : k \in {k \in DOMAIN fl :
        IF rec THEN Len(k[1]) >= Len(d) /\ SubSeq(k[1], 1, Len(d)) = d
        ELSE k[1] = d}}

\* the orders a directory listing may come in
Orders(S) ==
    {f \in [1..Cardinality(S) -> S] :
        \A i, j \in 1..Cardinality(S) : i # j => f[i] # f[j]}

\* the lists list(iter_files(inputs, recursive)) may be
RECURSIVE iter_files(_, _, _, _)
iter_files(fl, ds, inputs, rec) ==
    IF inputs = <<>> THEN {<<>>}
    ELSE LET p     == Head(inputs)
             first == IF IsDir(ds, p) THEN Orders(Globbed(fl, AsDir(p), rec))
                      ELSE IF IsFile(fl, p) THEN {<<p>>}
                      ELSE {<<>>}
         IN  {a \o b : a \in first, b \in iter_files(fl, ds, Tail(inputs), rec)}

\* what is kept of a run that returned
RunEntry(a, rec, fs, t, before, after) ==
    [args |-> a, recursive |-> rec, listed |-> fs, tally |-> t,
     before |-> before, after |-> after]

InitRuns ==
    /\ files \in RunFiles
    /\ dirs = Prefixes(SubDir)
    /\ pyValid = {Quoted}
    /\ linesep = LF
    /\ have_docx = TRUE
    /\ have_pptx = TRUE
    /\ have_openpyxl = TRUE
    /\ readonly = {}
    /\ args = NoArgs
    /\ mpc = "start"
    /\ mfiles = <<>>
    /\ mi = 0
    /\ mtally = ZeroTally
    /\ mresults = <<>>
    /\ exitCode = 0 - 1
    /\ recursive = FALSE
    /\ runlog = <<>>
    /\ call = NoCall
    /\ ret = NotCalled
    /\ files0 = files
    /\ IdleText /\ IdleGui

\* main up to the file list, in a process started when the run before it
\* has returned; files0 keeps the files the run found
RunStart ==
    /\ mpc \in {"start", "returned"}
    /\ Len(runlog) < MaxRuns
    /\ \E a \in RunOptions : \E rec \in BOOLEAN :
          LET dflt == ~a.in_place /\ a.out_dir = NoPath
              a2   == IF dflt THEN [a EXCEPT !.out_dir = DefaultOutDir] ELSE a
              ds   == IF dflt THEN Mkdir(dirs, AsDir(DefaultOutDir)) ELSE dirs
          IN  \E fs \in iter_files(files, ds, RunPaths, rec) :
                 /\ args' = a2
                 /\ recursive' = rec
                 /\ dirs' = ds
                 /\ mfiles' = fs
                 /\ files0' = files
                 /\ mi' = 0
                 /\ mtally' = ZeroTally
                 /\ mresults' = <<>>
                 /\ IF Len(fs) = 0
                    THEN /\ mpc' = "returned"
                         /\ exitCode' = 0
                         /\ runlog' = Append(runlog,
                                RunEntry(a2, rec, fs, ZeroTally, files, files))
                    ELSE /\ mpc' = "loop"
                         /\ exitCode' = 0 - 1
                         /\ UNCHANGED runlog
    /\ UNCHANGED <<files, pyValid, linesep, have_docx, have_pptx, have_openpyxl, readonly,
                   call, ret, textVars, guiVars>>

\* the summary and the return value of a run
RunReturn ==
    /\ mpc = "loop"
    /\ mi = Len(mfiles)
    /\ mpc' = "returned"
    /\ exitCode' = MainExit(mtally)
    /\ runlog' = Append(runlog, RunEntry(args, recursive, mfiles, mtally, files0, files))
    /\ UNCHANGED <<envVars, args, mfiles, mi, mtally, mresults, recursive,
                   textVars, callVars, guiVars>>

NextRuns == RunStart \/ MainStep \/ RunReturn

SpecRuns == InitRuns /\ [][NextRuns]_vars

(***************************************************************************)
(* Properties of process_one.                                              *)
(***************************************************************************)
Processed == ret.done /\ call.fn = "process_one"

\* the backup path of the file processed
Bak == WithBak(call.input_file)

\* the files named *.bak
BakKeys(fl) == {k \in DOMAIN fl : Len(k[2]) >= 2 /\ k[2][Len(k[2])] = ".bak"}

BakCreated == Key(Bak) \in DOMAIN files /\ Key(Bak) \notin DOMAIN files0

\* a backup was due and could not be written
BakFailed ==
    /\ args.backup /\ args.in_place
    /\ IsFile(files0, call.input_file)
    /\ ~IsFile(files0, Bak)
    /\ ~IsFile(files, Bak)

\* C11: a call of process_one creates no file named *.bak but the backup of
\* its path, and that one only when backup and in_place are both set, the
\* source exists and no backup exists yet; the backup created holds what the
\* source held before the call (it is made before the rewrite); without
\* in_place no backup is created; a backup that exists is left as it is; and
\* when a due backup cannot be written the call returns the result and leaves
\* the files that the same call without backup gives.
C11_BackupPolicy ==
    Processed =>
        /\ BakKeys(files) \ BakKeys(files0) \subseteq {Key(Bak)}
        /\ BakCreated =>
              /\ args.backup /\ args.in_place
              /\ IsFile(files0, call.input_file)
              /\ files[Key(Bak)] = files0[Key(call.input_file)]
        /\ ~args.in_place => BakKeys(files) = BakKeys(files0)
        /\ IsFile(files0, Bak) =>
              (IsFile(files, Bak) /\ files[Key(Bak)] = files0[Key(Bak)])
        /\ BakFailed =>
              LET r == process_one(files0, dirs, call.input_file, args.out_dir, TRUE,
                                   FALSE, args.validate_python, args.force_all_text)
              IN  /\ ~ret.raised
                  /\ ret.ok = r.ok /\ ret.msg = r.msg
                  /\ files = r.files

\* Witness of C11: a backup was made of a file that was then rewritten.
C11_Witness ==
    /\ Processed
    /\ BakCreated
    /\ ret.ok /\ ret.msg = MSG_OK
    /\ files[Key(call.input_file)] # files0[Key(call.input_file)]

\* the call returned what r holds and left the files r holds
SameAs(r) == ret.ok = r.ok /\ ret.msg = r.msg /\ files = r.files

\* the tally of both drivers counts the one result under the field f only
CountedAs(f) ==
    /\ Total(mtally) = 1 /\ mtally[f] = 1
    /\ Total(wtally) = 1 /\ wtally[f] = 1

\* the routing and the counting of a call that returned
C12_Routing ==
    (Processed /\ ~ret.raised) =>
        LET path   == call.input_file
            target == call.output_file
            ext    == Lower(Suffix(path))
            fl     == AfterBackup(files0, dirs, path, args.in_place, args.backup)
            asText == clean_textfile(fl, dirs, path, target, args.validate_python)
        IN  /\ ext = ".docx" => SameAs(clean_docx(fl, dirs, path, target))
            /\ ext = ".pptx" => SameAs(clean_pptx(fl, dirs, path, target))
            /\ ext = ".xlsx" => SameAs(clean_xlsx(fl, dirs, path, target))
            /\ ext \in TEXT_EXTENSIONS_COMMON \cup {".py"} => SameAs(asText)
            /\ ext \notin TEXT_EXTENSIONS_COMMON \cup {".py", ".docx", ".pptx", ".xlsx"} =>
                  IF args.force_all_text /\ probably_text(files0, path)
                  THEN SameAs(asText)
                  ELSE ~ret.ok /\ ret.msg = MSG_SKIPPED /\ files = fl
            /\ (~ret.ok /\ ret.msg = MSG_SKIPPED) => CountedAs("skipped")
            /\ (~ret.ok /\ ret.msg # MSG_SKIPPED) => CountedAs("failed")
            /\ ret.ok => (CountedAs("processed") /\ ret.msg \in {MSG_OK, MSG_UNCHANGED})

\* C12: every call of process_one returns one result; .docx, .pptx and .xlsx
\* (in any letter case) get the result of their adapter whatever the options,
\* the common text extensions and .py that of clean_textfile, and any other
\* extension the skip result unless force_all_text is set and probably_text
\* accepts the file; the skip result is counted as skipped only, a failure
\* as failed only.
C12_Dispatch == (Processed => ~ret.raised) /\ C12_Routing

\* the source of the call is the file it was before the call
SourceKept ==
    IsFile(files0, call.input_file) =>
        /\ IsFile(files, call.input_file)
        /\ files[Key(call.input_file)] = files0[Key(call.input_file)]

\* C21: a call of process_one without in_place computes a target other than
\* the source path and leaves the source file as it was, whatever the path
\* and the output directory (the directory of the source and no output
\* directory included).
C21_SourceUntouched ==
    (Processed /\ ~args.in_place) =>
        /\ Key(call.output_file) # Key(call.input_file)
        /\ SourceKept

\* the part of C21 that holds: with a target other than the source path the
\* source file is left as it was
C21_OtherTargetKeepsSource ==
    (Processed /\ ~args.in_place /\ Key(call.output_file) # Key(call.input_file)) =>
        SourceKept

(***************************************************************************)
(* Properties of the batch drivers.                                       *)
(***************************************************************************)
\* exactly one of processed, skipped, failed grows, and by one; changed
\* grows by at most one, and only with processed
OneMore(t, u) ==
    /\ Total(u) = Total(t) + 1
    /\ u.processed \in {t.processed, t.processed + 1}
    /\ u.skipped \in {t.skipped, t.skipped + 1}
    /\ u.failed \in {t.failed, t.failed + 1}
    /\ u.changed \in {t.changed, t.changed + (u.processed - t.processed)}

C7_Inv ==
    /\ mpc \in {"loop", "returned"} =>
          (Total(mtally) = mi /\ mtally.changed <= mtally.processed)
    /\ wpc \in {"check", "putdone", "end"} =>
          (Total(wtally) = started /\ wtally.changed <= wtally.processed)

C7_Step ==
    /\ mresults' # mresults => OneMore(mtally, mtally')
    /\ (wpc = "tally" /\ wpc' # wpc) => OneMore(wtally, wtally')
    /\ mtally' # mtally => mresults' # mresults
    /\ wtally' # wtally => wpc = "tally"

\* C7: in both drivers, between two files and at the end of a run, cancelled
\* or not, processed + skipped + failed is the number of files process_one
\* was called for and changed <= processed; every result adds one to exactly
\* one of processed, skipped, failed.
C7_BatchAccounting == [](C7_Inv) /\ [][C7_Step]_vars

\* Witness of C7: a cancelled worker run that counted a skipped file.
C7_Witness ==
    /\ wpc = "end"
    /\ \E k \in 1..Len(q) : q[k].tag = "log"
    /\ wtally.skipped = 1
    /\ started < Len(wfiles)

\* C8: no failure met while a file is processed aborts the batch: every call
\* of process_one returns a result for its file, so that neither main nor the
\* worker is ever left by an exception.
C8_ErrorsNeverAbort ==
    /\ mpc # "crashed"
    /\ wpc # "dead"
    /\ mpc \in {"loop", "returned"} => Len(mresults) = mi

IsTag(k, tag) == q[k].tag = tag

C9_Inv ==
    \A k \in 1..Len(q) : IsTag(k, "done") =>
        /\ k = Len(q)
        /\ Cardinality({j \in 1..(k - 1) : IsTag(j, "step")}) = started
        /\ \A i \in 1..started :
              \E j \in 1..(k - 1) :
                 IsTag(j, "step") /\ q[j].idx = i /\ q[j].f = wfiles[i]
        /\ Total(q[k].totals) = started

C9_Step ==
    /\ (wpc = "check" /\ wpc' # wpc /\ app.cancel_requested /\ started < Len(wfiles))
          => (wpc' = "putdone" /\ q' = Append(q, LogEvent))
    /\ wpc \in {"putdone", "end"} => (started' = started /\ wpc' \in {"putdone", "end"})
    /\ started' # started => wpc = "proc"
    /\ (wpc = "proc" /\ wpc' # wpc) => wpc' \in {"tally", "dead"}
    /\ (wpc = "tally" /\ wpc' # wpc) => wpc' = "check"

\* C9: the worker acts on the cancel flag at the head of the loop only: when
\* it finds the flag set there it starts no further file, a file whose
\* processing has started goes on to its tally whatever the flag becomes, and
\* the done event comes after the step event of every file started, with
\* totals that count them all.
C9_CancelAtBoundaries == [](C9_Inv) /\ [][C9_Step]_vars

\* Witness of C9: a run cancelled after its first file, with files left.
C9_Witness ==
    /\ wpc = "end"
    /\ \E k \in 1..Len(q) : IsTag(k, "log")
    /\ started = 1
    /\ started < Len(wfiles)
    /\ IsTag(1, "step")

IsFailure(r) == ~r.ok /\ ~StartsWithSkipped(r.msg)
IsSkip(r) == ~r.ok /\ StartsWithSkipped(r.msg)

\* C10: when main returns, it returns 2 if some file's result is a failure
\* and 0 otherwise; a skipped file is no failure, and an empty file list
\* gives 0.
C10_ExitStatus ==
    mpc = "returned" =>
        /\ exitCode \in {0, 2}
        /\ exitCode = 2 <=> \E k \in 1..Len(mresults) : IsFailure(mresults[k])
        /\ Len(mfiles) = 0 => exitCode = 0
        /\ Len(mresults) = Len(mfiles)

\* Witness of C10: main returned 0 from a run with a skipped file.
C10_Witness ==
    /\ mpc = "returned"
    /\ exitCode = 0
    /\ \E k \in 1..Len(mresults) : IsSkip(mresults[k])

\* the four totals of a sequence of results
Totals(rs) ==
    [processed |-> Cardinality({k \in 1..Len(rs) : rs[k].ok}),
     changed   |-> Cardinality({k \in 1..Len(rs) : rs[k].ok /\ rs[k].msg = MSG_OK}),
     skipped   |-> Cardinality({k \in 1..Len(rs) : IsSkip(rs[k])}),
     failed    |-> Cardinality({k \in 1..Len(rs) : IsFailure(rs[k])})]

IsStep(e) == e.tag = "step"
IsDone(e) == e.tag = "done"

\* the results the worker got, as its step events carry them
StepEvents == SelectSeq(q, IsStep)

\* C14: main and the worker report the same totals for the same results:
\* the totals main prints after its loop are Totals of the results of its
\* files, the totals of the worker's done event are Totals of the results in
\* its step events, and without a cancel request both have one result for
\* every file of the list, in the order of the list.
C14_SameTotals ==
    /\ (mpc = "returned" /\ Len(mfiles) > 0) =>
          /\ Len(mresults) = Len(mfiles)
          /\ mtally = Totals(mresults)
    /\ \A k \in 1..Len(q) : IsDone(q[k]) =>
          /\ q[k].totals = Totals(StepEvents)
          /\ ~app.cancel_requested =>
                /\ Len(StepEvents) = Len(wfiles)
                /\ \A i \in 1..Len(wfiles) : StepEvents[i].f = wfiles[i]

\* Witness of C14: the worker, with no cancel request, reported the totals
\* of a changed file and a failed one.
C14_Witness ==
    /\ wpc = "end"
    /\ ~app.cancel_requested
    /\ Len(wfiles) = 2
    /\ \E k \in 1..Len(q) :
          /\ IsDone(q[k])
          /\ q[k].totals = [processed |-> 1, changed |-> 1, skipped |-> 0, failed |-> 1]

\* what the worker has left to do: four for every file not yet started and
\* the rest of the file it is at
Remaining ==
    4 * (Len(wfiles) - started)
    + (CASE wpc = "check" -> 3
         [] wpc = "proc" -> 2
         [] wpc = "tally" -> 4
         [] wpc = "putdone" -> 1
         [] OTHER -> 0)

IsLog(e) == e.tag = "log"

\* the events put so far: the step events of the first files of the list,
\* numbered from 1, then at most one log event, put only when the cancel flag
\* was found set with files left, then at most one done event, which is there
\* exactly when the worker has ended
C16_Inv ==
    LET k == Len(StepEvents)
        n == Len(q)
    IN  /\ k <= Len(wfiles)
        /\ \A i \in 1..k : IsStep(q[i]) /\ q[i].idx = i /\ q[i].f = wfiles[i]
        /\ n <= k + 2
        /\ n = k + 1 => (IsLog(q[n]) \/ IsDone(q[n]))
        /\ n = k + 2 => (IsLog(q[k + 1]) /\ IsDone(q[n]))
        /\ (n > k /\ IsLog(q[k + 1])) => (k < Len(wfiles) /\ app.cancel_requested)
        /\ (n > k /\ IsDone(q[k + 1])) => k = Len(wfiles)
        /\ wpc = "end" <=> (n > 0 /\ IsDone(q[n]))
        /\ wpc \in {"check", "putdone", "end"} => k = started
        /\ wpc = "proc" => started < Len(wfiles)
        /\ wpc = "tally" => (started = k + 1 /\ started <= Len(wfiles))
        /\ wpc \in {"idle", "check", "proc", "tally", "putdone", "end"}

\* a step event is put for the file just processed and carries the result
\* process_one returned for it; an event once put stays where it is
C16_Step ==
    /\ (wpc = "proc" /\ wpc' # wpc) =>
          LET r == process_one(files, dirs, wfiles[started + 1], app.out_dir, app.in_place,
                               app.backup, app.validate_python, app.force_all_text)
          IN  wcur' = [ok |-> r.ok, msg |-> r.msg]
    /\ (wpc = "tally" /\ wpc' # wpc) =>
          q' = Append(q, [tag |-> "step", idx |-> started, f |-> wfiles[started],
                          ok |-> wcur.ok, msg |-> wcur.msg])
    /\ (wpc \notin {"off", "idle"} /\ Len(q) > 0) =>
          (Len(q') >= Len(q) /\ SubSeq(q', 1, Len(q)) = q)
    /\ (wpc \notin {"off", "idle"} /\ wpc' # wpc) => Remaining' < Remaining
    /\ q' # q => wpc' # wpc

\* C16: the events of a run are the step events 1, 2, ..., k of the first k
\* files of the list in list order, each carrying its file's result, then at
\* most one cancel log event, then one done event, after which nothing is
\* put; until it has put the done event the worker is at a step it can take
\* (it is never left by an exception), and every step brings it nearer to
\* the done event.
C16_EventSequence == [](C16_Inv) /\ [][C16_Step]_vars

\* Witness of C16: a cancelled run of two files put a step, the log and done.
C16_Witness ==
    /\ wpc = "end"
    /\ Len(wfiles) = 2
    /\ Len(q) = 3
    /\ IsStep(q[1]) /\ IsLog(q[2]) /\ IsDone(q[3])

\* the run has ended for the consumer: it handled done and polls no more
Stopped == wpc \notin {"off", "idle"} /\ ~app.running

\* what the consumer has handled is what the worker put first, in that
\* order; a consumer that has handled done has handled everything put, and
\* nothing is put after that
C17_Inv ==
    /\ Len(hlog) = handled
    /\ Len(hlog) <= Len(q)
    /\ hlog = SubSeq(q, 1, Len(hlog))
    /\ (\E k \in 1..Len(hlog) : IsDone(hlog[k])) <=> Stopped
    /\ Stopped => (hlog = q /\ wpc = "end")

\* the consumer takes one event at a time, the oldest it has not handled,
\* and while it handles events none it has handled changes
C17_Step ==
    /\ hlog' # hlog =>
          (Len(q) > Len(hlog) /\ hlog' = Append(hlog, q[Len(hlog) + 1]) /\ q' = q)
    /\ Stopped => (q' = q /\ hlog' = hlog)

\* C17: under every interleaving of the worker, Cancel and the consumer, the
\* consumer handles the events of the run in the order the worker put them,
\* none left out and none twice, and once it has handled done and stopped
\* polling it has handled every event of the run.
C17_ProgressChannel == [](C17_Inv) /\ [][C17_Step]_vars

\* Witness of C17: the consumer has handled the two steps and the done event
\* of a run of two files.
C17_Witness ==
    /\ Stopped
    /\ Len(hlog) = 3
    /\ IsStep(hlog[1]) /\ hlog[1].idx = 1
    /\ IsStep(hlog[2]) /\ hlog[2].idx = 2
    /\ IsDone(hlog[3])

\* C20: the run is reported as cancelled ("Abgebrochen") only if the worker
\* found the cancel flag set before some file, put its log event and left at
\* least one file of the list unprocessed; a run in which process_one was
\* called for every file of the list is reported as completed ("Fertig" or
\* "Fertig mit Fehlern"), whenever Cancel was pressed.
C20_TerminalState ==
    Stopped =>
        /\ report = "Abgebrochen" =>
              ((\E k \in 1..Len(q) : IsLog(q[k])) /\ started < Len(wfiles))
        /\ started = Len(wfiles) => report \in {"Fertig", "Fertig mit Fehlern"}

(***************************************************************************)
(* Properties of successive runs.                                          *)
(***************************************************************************)
\* the files before the first run
Origin == IF runlog = <<>> THEN files0 ELSE runlog[1].before

\* every run so far, the one under way included, was in place with backup
BackupRuns ==
    /\ \A i \in 1..Len(runlog) : runlog[i].args.in_place /\ runlog[i].args.backup
    /\ mpc = "loop" => (args.in_place /\ args.backup)

\* no run so far, the one under way included, had force_all_text
NoForceRuns ==
    /\ \A i \in 1..Len(runlog) : ~runlog[i].args.force_all_text
    /\ mpc = "loop" => ~args.force_all_text

BakOf(k) == <<k[1], k[2] \o <<".bak">>>>

\* the backup of every file of the first run holds what it held, or what
\* the file held, before the first run; and the run under way has left
\* every *.bak it found as it was
BackupsKept ==
    /\ \A k \in DOMAIN Origin :
          BakOf(k) \in DOMAIN files =>
              files[BakOf(k)] = IF BakOf(k) \in DOMAIN Origin THEN Origin[BakOf(k)]
                                ELSE Origin[k]
    /\ \A b \in BakKeys(files0) : b \in DOMAIN files /\ files[b] = files0[b]

\* C22: over runs of main that are all in place with backup, whatever their
\* other options (force_all_text included), the .bak of a file holds what
\* the file held before the first run, and no run modifies or replaces a
\* .bak that exists when it starts.
C22_BackupsKeepOriginal == BackupRuns => BackupsKept

\* the part of C22 that holds: runs without force_all_text
C22_WithoutForceAllText == (BackupRuns /\ NoForceRuns) => BackupsKept

\* the destination of a listed file in a run that is not in place
Dest(f) == Key(Target(f, args.out_dir, FALSE))

\* C23: in a run with an output directory, two distinct files of the list
\* never have the same destination path.
C23_DistinctDestinations ==
    (mpc \in {"loop", "returned"} /\ ~args.in_place) =>
        \A i, j \in 1..Len(mfiles) :
            mfiles[i] # mfiles[j] => Dest(mfiles[i]) # Dest(mfiles[j])

\* the part of C23 that holds: files of one directory
C23_OneDirectory ==
    (mpc \in {"loop", "returned"} /\ ~args.in_place) =>
        \A i, j \in 1..Len(mfiles) :
            (mfiles[i] # mfiles[j] /\ mfiles[i].dir = mfiles[j].dir) =>
                Dest(mfiles[i]) # Dest(mfiles[j])

\* run i repeats run i - 1: in place, the same options
Repeats(i) ==
    /\ runlog[i - 1].args.in_place
    /\ runlog[i].args = runlog[i - 1].args
    /\ runlog[i].recursive = runlog[i - 1].recursive

\* run i reports no change and leaves every file as run i - 1 left it
NothingChanged(i) ==
    /\ runlog[i].tally.changed = 0
    /\ \A k \in DOMAIN runlog[i - 1].after :
          k \in DOMAIN runlog[i].after /\ runlog[i].after[k] = runlog[i - 1].after[k]

\* C24: an in-place run that follows an in-place run with the same inputs
\* and options reports changed = 0 and leaves the content of every file as
\* the run before left it, whatever the options (backup, force_all_text,
\* recursive).
C24_RepeatedRunIdempotent ==
    \A i \in 2..Len(runlog) : Repeats(i) => NothingChanged(i)

\* the part of C24 that holds: runs without backup or without force_all_text
C24_WithoutBackupOrForce ==
    \A i \in 2..Len(runlog) :
        (Repeats(i) /\ ~(runlog[i].args.backup /\ runlog[i].args.force_all_text)) =>
            NothingChanged(i)

====
